---- MODULE Spec2Model ----
(***************************************************************************)
(* Model of prewitt_operator (Prewitt_Edge_Detector.ipynb, code cell 1)    *)
(* and of the notebook cells that call it.                                 *)
(*                                                                         *)
(* Arrays are objects on a heap: the caller's image ("arg"), the array     *)
(* np.zeros allocates ("edge") and the array cv2.GaussianBlur returns      *)
(* ("blur").  Local names (img, edge_img) hold references.                 *)
(*                                                                         *)
(* The input is a uint8 image, as cv2.imread(..., IMREAD_GRAYSCALE) gives. *)
(* Each product img[..] * prewitt_x[..] is uint8 * int64 = int64, so G_x   *)
(* and G_y are exact integers.  np.sqrt gives a float: a float value v >= 0*)
(* is held as the record [sq |-> v * v], so that sqrt(n) is exact for      *)
(* every integer n and 0.0 is [sq |-> 0].                                  *)
(***************************************************************************)
EXTENDS Integers, Sequences, FiniteSets, TLC

VARIABLES pc, outcome, heap, orig, threshold, smooth, img, edge_img,
          rows, cols, i, j, G_x, G_y, G_mag, visited, ret, prev

vars == <<pc, outcome, heap, orig, threshold, smooth, img, edge_img,
          rows, cols, i, j, G_x, G_y, G_mag, visited, ret, prev>>

\* ------------------------------------------------------------------ bounds
MaxRows == 3
MaxCols == 4
MaxBright == 1

\* ------------------------------------------------------- program constants
DefaultThreshold == 40
BORDER_DEFAULT == 4

None == "None"

\* the intensity of a bright pixel of the input images
High == DefaultThreshold

prewitt_x == << <<1, 0, -1>>, <<1, 0, -1>>, <<1, 0, -1>> >>
prewitt_y == << <<1, 1, 1>>, <<0, 0, 0>>, <<-1, -1, -1>> >>

\* kernel[u, v] with numpy's 0-based indices
K(kernel, u, v) == kernel[u + 1][v + 1]

\* -------------------------------------------------------------------- grids
Cells(r, c) == (0 .. r - 1) \X (0 .. c - 1)

Grid(r, c, f) == [rows |-> r, cols |-> c, px |-> f]

\* numpy index normalisation: a negative index counts from the end
Index(k, n) == IF k < 0 THEN k + n ELSE k

\* g[r, c]
At(g, r, c) == g.px[<<Index(r, g.rows), Index(c, g.cols)>>]

\* float values: the non-negative real whose square is n
Sqrt(n) == [sq |-> n]
Zero == Sqrt(0)

\* x < t for a float x >= 0 and an integer t
Less(x, t) == t > 0 /\ x.sq < t * t

\* np.zeros((rows, cols))
np_zeros(r, c) == Grid(r, c, [p \in Cells(r, c) |-> Zero])

\* ------------------------------------------------------------ GaussianBlur
\* cv2.getGaussianKernel(3, sigma) in 1/256 units (the 8-bit fixed point of the
\* uint8 path): sigma <= 0 selects the fixed kernel [1/4, 1/2, 1/4]; a positive
\* sigma computes exp(-x^2 / (2 sigma^2)), tabulated here for sigma = 4, the
\* only positive value the program passes: [0.3298, 0.3403, 0.3298].
getGaussianKernel(sigma) == IF sigma <= 0 THEN <<64, 128, 64>> ELSE <<84, 88, 84>>

\* cv2.borderInterpolate(p, len, BORDER_REFLECT_101), the default border mode
borderInterpolate(p, len) ==
    IF len = 1 THEN 0
    ELSE IF p < 0 THEN -p
    ELSE IF p >= len THEN 2 * len - 2 - p
    ELSE p

\* cv2.GaussianBlur(g, (3, 3), sigma): a new array of the same shape and dtype
GaussianBlur(g, sigma) ==
    LET k == getGaussianKernel(sigma)
        src(r, c) == g.px[<<borderInterpolate(r, g.rows), borderInterpolate(c, g.cols)>>]
        acc(p) == k[1] * (k[1] * src(p[1] - 1, p[2] - 1) + k[2] * src(p[1] - 1, p[2]) + k[3] * src(p[1] - 1, p[2] + 1))
                + k[2] * (k[1] * src(p[1], p[2] - 1) + k[2] * src(p[1], p[2]) + k[3] * src(p[1], p[2] + 1))
                + k[3] * (k[1] * src(p[1] + 1, p[2] - 1) + k[2] * src(p[1] + 1, p[2]) + k[3] * src(p[1] + 1, p[2] + 1))
    IN Grid(g.rows, g.cols, [p \in Cells(g.rows, g.cols) |-> (acc(p) + 32768) \div 65536])

\* the value the call passes in GaussianBlur's sigmaX position
SigmaArg == BORDER_DEFAULT

\* the blur writes its result into the caller's array (dst = img)
BlurInPlace == "arg"

\* the heap object that receives the blurred image
BlurTarget == "blur"

\* the heap object np.zeros allocates for edge_img
EdgeTarget == "edge"

\* ---------------------------------------------------------------- the loop
\* range(lo, hi)
Range(lo, hi) == lo .. hi - 1

\* both ranges start at 0: range(0, rows-1), range(0, cols-1)
InteriorFromZero(r, c) == Range(0, r - 1) \X Range(0, c - 1)

\* the positions the nested loops visit
Interior(r, c) == Range(1, r - 1) \X Range(1, c - 1)

\* lexicographic order: the order of the nested for loops
Before(p, q) == p[1] < q[1] \/ (p[1] = q[1] /\ p[2] < q[2])

First(S) == CHOOSE p \in S : \A q \in S \ {p} : Before(p, q)

Compute_G_x(g, a, b) ==
      At(g, a - 1, b - 1) * K(prewitt_x, 0, 0) + At(g, a, b - 1) * K(prewitt_x, 0, 1) + At(g, a + 1, b - 1) * K(prewitt_x, 0, 2)
    + At(g, a - 1, b) * K(prewitt_x, 1, 0) + At(g, a, b) * K(prewitt_x, 1, 1) + At(g, a + 1, b) * K(prewitt_x, 1, 2)
    + At(g, a - 1, b + 1) * K(prewitt_x, 2, 0) + At(g, a, b + 1) * K(prewitt_x, 2, 1) + At(g, a + 1, b + 1) * K(prewitt_x, 2, 2)

Compute_G_y(g, a, b) ==
      At(g, a - 1, b - 1) * K(prewitt_y, 0, 0) + At(g, a, b - 1) * K(prewitt_y, 0, 1) + At(g, a + 1, b - 1) * K(prewitt_y, 0, 2)
    + At(g, a - 1, b) * K(prewitt_y, 1, 0) + At(g, a, b) * K(prewitt_y, 1, 1) + At(g, a + 1, b) * K(prewitt_y, 1, 2)
    + At(g, a - 1, b + 1) * K(prewitt_y, 2, 0) + At(g, a, b + 1) * K(prewitt_y, 2, 1) + At(g, a + 1, b + 1) * K(prewitt_y, 2, 2)

\* np.sqrt(G_x ** 2 + G_y ** 2)
Magnitude(gx, gy) == Sqrt(gx * gx + gy * gy)

\* the comparison is inclusive: if G_mag <= threshold: G_mag = 0
SuppressInclusive(gm, t) == IF t >= 0 /\ gm.sq <= t * t THEN Zero ELSE gm

\* the comparison is reversed: if G_mag > threshold: G_mag = 0
SuppressAbove(gm, t) == IF t < 0 \/ gm.sq > t * t THEN Zero ELSE gm

\* if G_mag < threshold: G_mag = 0
Suppress(gm, t) == IF Less(gm, t) THEN Zero ELSE gm

\* the pseudocode's 1-based target: new_img[i+1, j+1] = Gmag
WritePosShifted(a, b) == <<a + 1, b + 1>>

\* the column index is dropped: edge_img[i, 1] = G_mag
WritePosColumn(a, b) == <<a, 1>>

\* the cell of edge_img the loop body at (a, b) assigns
WritePos(a, b) == <<a, b>>

\* edge_img[i, j] = G_mag on the array e, with i = a, j = b
Store(e, a, b, gm) == [e EXCEPT !.px = [e.px EXCEPT ![WritePos(a, b)] = gm]]

\* the value the loop body at (a, b) leaves in G_mag, reading the array g
CellValue(g, a, b, t) == Suppress(Magnitude(Compute_G_x(g, a, b), Compute_G_y(g, a, b)), t)

\* the effect of the loop body with i = a, j = b on the arrays
Body(a, b) ==
    /\ heap' = [heap EXCEPT ![edge_img] = Store(heap[edge_img], a, b, CellValue(heap[img], a, b, threshold))]
    /\ visited' = visited \cup {<<a, b>>}

\* the nested loops run to completion in their own order over the positions
\* todo, reading the array g and writing the array e
RECURSIVE RunRowMajor(_, _, _, _)
RunRowMajor(g, e, t, todo) ==
    IF todo = {} THEN e
    ELSE LET p == First(todo)
         IN RunRowMajor(g, Store(e, p[1], p[2], CellValue(g, p[1], p[2], t)), t, todo \ {p})

\* ------------------------------------------------------------------ inputs
\* a negative threshold, no threshold, the default and one just above it
Thresholds == {-1, 0, DefaultThreshold, DefaultThreshold + 1}

\* uint8 images of up to MaxRows x MaxCols with at most MaxBright pixels at High
Images ==
    UNION { { Grid(r, c, [p \in Cells(r, c) |-> IF p \in B THEN High ELSE 0]) :
                B \in { S \in SUBSET Cells(r, c) : Cardinality(S) <= MaxBright } } :
            r \in 0 .. MaxRows, c \in 0 .. MaxCols }

\* the state at the call prewitt_operator(image, t, s)
Called(image, t, s) ==
    /\ pc = "enter"
    /\ outcome = "running"
    /\ heap = [o \in {"arg"} |-> image]
    /\ orig = image
    /\ threshold = t
    /\ smooth = s
    /\ img = "arg"
    /\ edge_img = None
    /\ rows = None
    /\ cols = None
    /\ i = None
    /\ j = None
    /\ G_x = None
    /\ G_y = None
    /\ G_mag = None
    /\ visited = {}
    /\ ret = None

Init ==
    /\ \E image \in Images, t \in Thresholds, s \in BOOLEAN : Called(image, t, s)
    /\ prev = <<>>

\* ----------------------------------------------------------------- actions
\* rows, cols = img.shape; edge_img = np.zeros((rows, cols)); the two kernels
Enter ==
    /\ pc = "enter"
    /\ rows' = heap[img].rows
    /\ cols' = heap[img].cols
    /\ edge_img' = EdgeTarget
    /\ heap' = [o \in DOMAIN heap \cup {EdgeTarget} |->
                  IF o = EdgeTarget THEN np_zeros(heap[img].rows, heap[img].cols) ELSE heap[o]]
    /\ pc' = "smooth"
    /\ UNCHANGED <<outcome, orig, threshold, smooth, img, i, j, G_x, G_y, G_mag, visited, ret, prev>>

\* if smooth: img = cv2.GaussianBlur(img, (3, 3), cv2.BORDER_DEFAULT)
Blur ==
    /\ pc = "smooth"
    /\ smooth
    /\ heap' = [o \in DOMAIN heap \cup {BlurTarget} |->
                  IF o = BlurTarget THEN GaussianBlur(heap[img], SigmaArg) ELSE heap[o]]
    /\ img' = BlurTarget
    /\ pc' = "loop"
    /\ UNCHANGED <<outcome, orig, threshold, smooth, edge_img, rows, cols, i, j, G_x, G_y, G_mag, visited, ret, prev>>

\* cv2.GaussianBlur asserts !_src.empty() in the OpenCV builds that check it
BlurError ==
    /\ pc = "smooth"
    /\ smooth
    /\ Cells(rows, cols) = {}
    /\ pc' = "done"
    /\ outcome' = "cv2.error"
    /\ UNCHANGED <<heap, orig, threshold, smooth, img, edge_img, rows, cols, i, j, G_x, G_y, G_mag, visited, ret, prev>>

\* smooth is false: the if is skipped
NoBlur ==
    /\ pc = "smooth"
    /\ ~smooth
    /\ pc' = "loop"
    /\ UNCHANGED <<outcome, heap, orig, threshold, smooth, img, edge_img, rows, cols, i, j, G_x, G_y, G_mag, visited, ret, prev>>

\* the next iteration of for i in range(1, rows-1): for j in range(1, cols-1)
LoopBody ==
    /\ pc = "loop"
    /\ Interior(rows, cols) \ visited # {}
    /\ LET p == First(Interior(rows, cols) \ visited)
       IN /\ i' = p[1]
          /\ j' = p[2]
          /\ G_x' = Compute_G_x(heap[img], p[1], p[2])
          /\ G_y' = Compute_G_y(heap[img], p[1], p[2])
          /\ G_mag' = CellValue(heap[img], p[1], p[2], threshold)
          /\ Body(p[1], p[2])
    /\ UNCHANGED <<pc, outcome, orig, threshold, smooth, img, edge_img, rows, cols, ret, prev>>

\* both ranges are exhausted: return edge_img
Return ==
    /\ pc = "loop"
    /\ Interior(rows, cols) \ visited = {}
    /\ ret' = edge_img
    /\ pc' = "done"
    /\ outcome' = "returned"
    /\ UNCHANGED <<heap, orig, threshold, smooth, img, edge_img, rows, cols, i, j, G_x, G_y, G_mag, visited, prev>>

\* the next notebook cell: the same image is read again and prewitt_operator is
\* called with another threshold and smooth; prev keeps the last call's
\* configuration and the array it returned
CallAgain ==
    /\ pc = "done"
    /\ outcome = "returned"
    /\ prev' = <<[threshold |-> threshold, smooth |-> smooth, out |-> heap[ret]]>>
    /\ \E t \in Thresholds, s \in BOOLEAN :
         /\ pc' = "enter"
         /\ heap' = [o \in {"arg"} |-> orig]
         /\ threshold' = t
         /\ smooth' = s
         /\ img' = "arg"
         /\ edge_img' = None
         /\ rows' = None
         /\ cols' = None
         /\ i' = None
         /\ j' = None
         /\ G_x' = None
         /\ G_y' = None
         /\ G_mag' = None
         /\ visited' = {}
         /\ ret' = None
         /\ outcome' = "running"
    /\ UNCHANGED orig

Next == Enter \/ Blur \/ BlurError \/ NoBlur \/ LoopBody \/ Return \/ CallAgain

Spec == Init /\ [][Next]_vars

\* the loop bodies run in any order (any partition among workers); the loop
\* variables and G_x, G_y, G_mag are then local to each worker and not kept
BodyAny ==
    /\ pc = "loop"
    /\ \E p \in Interior(rows, cols) \ visited : Body(p[1], p[2])
    /\ UNCHANGED <<pc, outcome, orig, threshold, smooth, img, edge_img, rows, cols, i, j, G_x, G_y, G_mag, ret, prev>>

NextAnyOrder == Enter \/ Blur \/ BlurError \/ NoBlur \/ BodyAny \/ Return

SpecAnyOrder == Init /\ [][NextAnyOrder]_vars

\* ------------------------------------------------------------------ claims
\* The notebook's documented sum (and the specification's):
\* sum over u, v in {0,1,2} of kernel(u, v) * I(a-1+u, b-1+v)
NbSum(kernel, g, a, b) ==
    LET t(u, v) == K(kernel, u, v) * g.px[<<a - 1 + u, b - 1 + v>>]
    IN t(0, 0) + t(0, 1) + t(0, 2) + t(1, 0) + t(1, 1) + t(1, 2) + t(2, 0) + t(2, 1) + t(2, 2)

\* the squared gradient magnitude at (a, b) of the grid g, from the documented sums
NbMagSq(g, a, b) ==
    NbSum(prewitt_x, g, a, b) * NbSum(prewitt_x, g, a, b) + NbSum(prewitt_y, g, a, b) * NbSum(prewitt_y, g, a, b)

\* the positions with 1 <= i <= rows-2 and 1 <= j <= cols-2 of an r x c grid
InteriorPositions(r, c) == { p \in Cells(r, c) : 1 <= p[1] /\ p[1] <= r - 2 /\ 1 <= p[2] /\ p[2] <= c - 2 }

\* the positions in row 0, row rows-1, column 0 or column cols-1
BorderPositions(r, c) == { p \in Cells(r, c) : p[1] = 0 \/ p[1] = r - 1 \/ p[2] = 0 \/ p[2] = c - 1 }

Returned == pc = "done" /\ outcome = "returned"

\* C1: with smooth = false and threshold >= 0, every interior cell the loop has
\* assigned holds sqrt(Gx^2 + Gy^2) of the documented sums over the input, or 0
\* exactly when that magnitude is strictly below the threshold; at return every
\* interior cell has been assigned.
C1_InteriorValue ==
    (~smooth /\ threshold >= 0 /\ pc \in {"loop", "done"}) =>
        /\ \A p \in visited :
             heap[edge_img].px[p] =
                 IF NbMagSq(orig, p[1], p[2]) < threshold * threshold
                 THEN Zero ELSE Sqrt(NbMagSq(orig, p[1], p[2]))
        /\ Returned => visited = InteriorPositions(orig.rows, orig.cols)

\* two returned calls without smoothing: in the first an interior magnitude
\* equal to the threshold was kept; in the second, with a larger threshold, the
\* same cell is zeroed and a cell with a larger magnitude is kept
C1_Witness ==
    /\ Returned /\ ~smooth /\ prev # <<>>
    /\ ~prev[1].smooth /\ 0 < prev[1].threshold /\ prev[1].threshold < threshold
    /\ \E p \in visited :
         /\ prev[1].out.px[p] = Sqrt(prev[1].threshold * prev[1].threshold)
         /\ heap[ret].px[p] = Zero
    /\ \E q \in visited : heap[ret].px[q] # Zero

\* C2: once allocated, the output has the input's shape and every border cell of
\* it is 0 in every state, and no loop body runs at a border position.
C2_BorderZero ==
    (pc # "enter") =>
        /\ heap[edge_img].rows = orig.rows /\ heap[edge_img].cols = orig.cols
        /\ \A p \in BorderPositions(orig.rows, orig.cols) : heap[edge_img].px[p] = Zero
        /\ visited \cap BorderPositions(orig.rows, orig.cols) = {}

\* a returned run with smoothing and a negative threshold that wrote a non-zero
\* interior cell
C2_Witness ==
    /\ Returned /\ smooth /\ threshold < 0
    /\ \E p \in visited : heap[ret].px[p] # Zero

\* C3: a call with a negative threshold (here on a grid of at least 3 x 3, so
\* that the threshold is the only invalid argument and there are pixels to
\* process) ends in an InvalidConfiguration error, with no smoothing done, no
\* loop body executed and no grid returned.
C3_NegativeThresholdRejected ==
    (threshold < 0 /\ orig.rows >= 3 /\ orig.cols >= 3 /\ pc = "done") =>
        /\ outcome = "InvalidConfiguration"
        /\ img = "arg"
        /\ visited = {}
        /\ ret = None

\* C4: a call on a grid with rows = 0 or cols = 0 (here with a threshold >= 0,
\* so that the grid is the only invalid argument) ends in an error and returns
\* no output grid, for either value of smooth.
C4_EmptyGridRejected ==
    ((orig.rows = 0 \/ orig.cols = 0) /\ threshold >= 0 /\ pc = "done") =>
        /\ outcome # "returned"
        /\ ret = None

\* C5: on a grid with rows >= 1, cols >= 1 and rows < 3 or cols < 3, with
\* threshold >= 0, no loop body is ever executed and the call returns without
\* error an all-zero grid of the input's shape.
C5_SmallGrid ==
    (orig.rows >= 1 /\ orig.cols >= 1 /\ (orig.rows < 3 \/ orig.cols < 3) /\ threshold >= 0) =>
        /\ visited = {}
        /\ pc = "done" =>
             /\ outcome = "returned"
             /\ heap[ret].rows = orig.rows
             /\ heap[ret].cols = orig.cols
             /\ DOMAIN heap[ret].px = Cells(orig.rows, orig.cols)
             /\ \A p \in Cells(orig.rows, orig.cols) : heap[ret].px[p] = Zero

\* a returned run on a 2 x 2 grid with a bright pixel
C5_Witness ==
    /\ Returned /\ orig.rows = 2 /\ orig.cols = 2 /\ threshold >= 0
    /\ \E p \in Cells(2, 2) : orig.px[p] = High

\* every cell that is 0 in lo is 0 in hi, and every non-zero cell of hi has the
\* same value in lo
Refines(lo, hi) ==
    \A p \in DOMAIN hi.px :
        /\ lo.px[p] = Zero => hi.px[p] = Zero
        /\ hi.px[p] # Zero => lo.px[p] = hi.px[p]

\* C6: two calls on the same input with the same smooth and thresholds
\* 0 <= t1 <= t2: every cell that is 0 at t1 is 0 at t2, and every cell that is
\* non-zero at t2 has the same value at t1.
C6_ThresholdMonotone ==
    (Returned /\ prev # <<>>) =>
        ((prev[1].smooth = smooth /\ prev[1].threshold >= 0 /\ threshold >= 0) =>
            /\ prev[1].threshold <= threshold => Refines(prev[1].out, heap[ret])
            /\ threshold <= prev[1].threshold => Refines(heap[ret], prev[1].out))

\* a call with threshold 0 and then a call with the same smooth and a larger
\* threshold have returned; the second zeroed one cell the first kept and kept
\* another
C6_Witness ==
    /\ Returned /\ prev # <<>>
    /\ prev[1].smooth = smooth /\ prev[1].threshold = 0 /\ 0 < threshold
    /\ \E p \in visited : prev[1].out.px[p] # Zero /\ heap[ret].px[p] = Zero
    /\ \E q \in visited : heap[ret].px[q] # Zero

\* C7: the caller's array holds its original value in every state, and the
\* output array is neither the caller's array nor the array the loop reads.
C7_InputUnchanged ==
    /\ heap["arg"] = orig
    /\ pc # "enter" => edge_img # "arg" /\ edge_img # img
    /\ Returned => ret = edge_img /\ ret # "arg"

\* a returned run with smoothing in which the blurred array differs from the
\* input and a non-zero cell was written
C7_Witness ==
    /\ Returned /\ smooth
    /\ \E p \in Cells(orig.rows, orig.cols) : heap[img].px[p] # orig.px[p]
    /\ \E p \in visited : heap[ret].px[p] # Zero

\* the 3x3 Gaussian with automatic sigma: 1/16 * [[1,2,1],[2,4,2],[1,2,1]]
AutoWeights == << <<1, 2, 1>>, <<2, 4, 2>>, <<1, 2, 1>> >>

AutoBlur(g) ==
    LET src(r, c) == g.px[<<borderInterpolate(r, g.rows), borderInterpolate(c, g.cols)>>]
        t(p, u, v) == K(AutoWeights, u, v) * src(p[1] - 1 + u, p[2] - 1 + v)
        acc(p) == t(p, 0, 0) + t(p, 0, 1) + t(p, 0, 2) + t(p, 1, 0) + t(p, 1, 1) + t(p, 1, 2)
                + t(p, 2, 0) + t(p, 2, 1) + t(p, 2, 2)
    IN Grid(g.rows, g.cols, [p \in Cells(g.rows, g.cols) |-> (acc(p) + 8) \div 16])

\* C8: when smooth is true (here on a grid of at least 3 x 3 with a threshold
\* >= 0) the grid the loop reads has the input's shape and is the input blurred
\* with the automatic 3x3 Gaussian, the one a blur call that supplies no
\* standard deviation applies.
C8_AutoSigmaBlur ==
    (smooth /\ pc = "loop" /\ orig.rows >= 3 /\ orig.cols >= 3 /\ threshold >= 0) =>
        heap[img] = AutoBlur(orig)

\* C9: after a loop body at (i, j), G_x is the documented sum of P_x over the
\* neighbourhood (left column minus right column) and G_y that of P_y (top row
\* minus bottom row).
C9_DocumentedSums ==
    (visited # {}) =>
        /\ G_x = NbSum(prewitt_x, heap[img], i, j)
        /\ G_y = NbSum(prewitt_y, heap[img], i, j)

Max0(n) == IF n < 0 THEN 0 ELSE n

\* the grid the row-major loop of the code leaves for the input g
RowMajorResult(g, t, s) ==
    RunRowMajor(IF s THEN GaussianBlur(g, SigmaArg) ELSE g, np_zeros(g.rows, g.cols), t,
                Interior(g.rows, g.cols))

\* smoothing is done before the first loop body, each loop body has written
\* only its own cell, and a returned run leaves the grid the loop bodies read
\* as it was when the first of them ran and ends with the grid of the
\* row-major loop
OrderImmaterial ==
    /\ visited # {} =>
         /\ img = (IF smooth THEN "blur" ELSE "arg")
         /\ \A p \in Cells(rows, cols) \ visited : heap[edge_img].px[p] = Zero
    /\ Returned =>
         /\ heap[img] = (IF smooth THEN GaussianBlur(orig, SigmaArg) ELSE orig)
         /\ heap[ret] = RowMajorResult(orig, threshold, smooth)

\* C10 as stated (here on grids with at least one row and column and with a
\* threshold >= 0): with the loop bodies in any order, a returned run has executed
\* exactly (rows-2)*(cols-2) loop bodies and holds the grid of the row-major loop.
C10_AnyOrderCount ==
    /\ OrderImmaterial
    /\ (Returned /\ orig.rows >= 1 /\ orig.cols >= 1 /\ threshold >= 0) =>
         Cardinality(visited) = (rows - 2) * (cols - 2)

\* C10 amended: the number of loop bodies is max(rows-2, 0) * max(cols-2, 0).
C10_AnyOrder ==
    /\ OrderImmaterial
    /\ Returned => Cardinality(visited) = Max0(rows - 2) * Max0(cols - 2)

\* with smoothing done, the body at (1, 2) has run before the body at (1, 1)
\* and has written a non-zero value that differs from the one the row-major
\* loop leaves at (1, 1)
C10_Witness ==
    /\ pc = "loop" /\ smooth
    /\ visited = {<<1, 2>>}
    /\ heap[edge_img].px[<<1, 2>>] # Zero
    /\ RowMajorResult(orig, threshold, smooth).px[<<1, 1>>] # Zero
    /\ RowMajorResult(orig, threshold, smooth).px[<<1, 1>>] # heap[edge_img].px[<<1, 2>>]

====
